---- MODULE Spec2Model ----
(***************************************************************************)
(* check8: 8-bit checksum types (Check8Sum, Check8Xor, Check8Crc) behind   *)
(* the Check8 trait.  One checksum instance and its caller are modelled:   *)
(* the instance's fields are the state, every trait method is an action.   *)
(***************************************************************************)
EXTENDS Integers, Sequences, FiniteSets

VARIABLES
    variant,    \* the concrete type of the instance: "Sum", "Xor" or "Crc"
    accum,      \* field accum: u8
    table,      \* field table: [u8; 256] of Check8Crc (<<>> for the other types)
    poly,       \* history: the polynomial the table was generated from (0: no table)
    call        \* the method call that has just returned: [op, arg, pre, ret]

vars == <<variant, accum, table, poly, call>>

\* ------------------------------------------------------------- bounds

\* Longest byte array / text (in chars) handed to the bulk operations.
MaxLen == 3

\* ------------------------------------------------------------ u8 values

U8Bits == 8
U8Mod == 2 ^ U8Bits
Byte == 0 .. (U8Mod - 1)

RECURSIVE BitXorN(_, _, _)
BitXorN(a, b, n) ==
    IF n = 0 THEN 0
    ELSE (((a % 2) + (b % 2)) % 2) + 2 * BitXorN(a \div 2, b \div 2, n - 1)

RECURSIVE BitAndN(_, _, _)
BitAndN(a, b, n) ==
    IF n = 0 THEN 0
    ELSE ((a % 2) * (b % 2)) + 2 * BitAndN(a \div 2, b \div 2, n - 1)

XorOf == [a \in Byte |-> [b \in Byte |-> BitXorN(a, b, U8Bits)]]
AndOf == [a \in Byte |-> [b \in Byte |-> BitAndN(a, b, U8Bits)]]

\* u8 ^ u8
BitXor(a, b) == XorOf[a][b]
\* u8 & u8
BitAnd(a, b) == AndOf[a][b]
\* u8 << k for k < 8: the bits shifted out are dropped
Shl(a, k) == (a * (2 ^ k)) % U8Mod
\* Variant: the sum sticks at 255 instead of wrapping (u8::saturating_add).
saturating_add(a, b) == IF a + b > 255 THEN 255 ELSE a + b

\* u8::wrapping_add
wrapping_add(a, b) == (a + b) % U8Mod

\* ------------------------------------------------------------ inputs

\* Polynomials the full-lifecycle specification builds CRC engines from.
Polys == {7, 6}
\* Bytes the bulk operations draw their arrays from.
ArrayBytes == {1, 2, 3, 255}
\* Unicode scalar values the texts are made of: '1', '2', '3', U+20AC.
TextChars == {49, 50, 51, 8364}
\* Bytes fed to init/add where every polynomial is explored.
SampleBytes == {0, 1, 128, 255}

SeqsUpTo(S, n) == UNION {[1 .. k -> S] : k \in 0 .. n}
Arrays == SeqsUpTo(ArrayBytes, MaxLen)
Texts == SeqsUpTo(TextChars, MaxLen)

\* str::as_bytes: the UTF-8 encoding of the text, char by char.
Utf8(c) ==
    IF c < 128 THEN <<c>>
    ELSE IF c < 2048 THEN <<192 + (c \div 64), 128 + (c % 64)>>
    ELSE IF c < 65536 THEN
        <<224 + (c \div 4096), 128 + ((c \div 64) % 64), 128 + (c % 64)>>
    ELSE <<240 + (c \div 262144), 128 + ((c \div 4096) % 64),
           128 + ((c \div 64) % 64), 128 + (c % 64)>>

RECURSIVE as_bytes(_)
as_bytes(string) ==
    IF string = <<>> THEN <<>>
    ELSE Utf8(Head(string)) \o as_bytes(Tail(string))

\* ----------------------------------------------------------- Check8Crc

\* Variant: the loop tests bit 6, not the high bit, before shifting.
TableStep_bit6(crc, g) ==
    IF BitAnd(crc, 64) # 0 THEN BitXor(Shl(crc, 1), g) ELSE Shl(crc, 1)

\* One pass of the inner loop of generate_table.
TableStep(crc, g) ==
    IF BitAnd(crc, 128) # 0 THEN BitXor(Shl(crc, 1), g) ELSE Shl(crc, 1)

RECURSIVE TableLoop(_, _, _)
TableLoop(crc, g, n) ==
    IF n = 0 THEN crc ELSE TableLoop(TableStep(crc, g), g, n - 1)

\* Variant: the inner loop runs 7 times.
generate_table_7_rounds(g) == [i \in Byte |-> TableLoop(i, g, 7)]

generate_table(g) == [i \in Byte |-> TableLoop(i, g, 8)]

\* Variant: the constructor argument is taken for a seed as well.
Check8Crc_new_seeded(g) ==
    [variant |-> "Crc", accum |-> g, table |-> generate_table(g)]

Check8Crc_new(g) ==
    [variant |-> "Crc", accum |-> 0, table |-> generate_table(g)]

Check8Crc_get_accum(self) == self.accum

\* Variant: init rebuilds the table from its argument, as new does.
Check8Crc_init_rebuilds(self, val) ==
    LET s == [self EXCEPT !.accum = val, !.table = generate_table(val)]
    IN [self |-> s, ret |-> s.accum]

Check8Crc_init(self, val) ==
    LET s == [self EXCEPT !.accum = val] IN [self |-> s, ret |-> s.accum]

\* Variant: the table is indexed by the input byte alone.
Check8Crc_add_index_val(self, val) ==
    LET s == [self EXCEPT !.accum = self.table[val]]
    IN [self |-> s, ret |-> s.accum]

Check8Crc_add(self, val) ==
    LET s == [self EXCEPT !.accum = self.table[BitXor(self.accum, val)]]
    IN [self |-> s, ret |-> s.accum]

\* ----------------------------------------------------------- Check8Sum

Check8Sum_new(initial) == [variant |-> "Sum", accum |-> initial, table |-> <<>>]

Check8Sum_get_accum(self) == self.accum

\* Variant: init adds to the accumulator instead of overwriting it.
Check8Sum_init_adds(self, val) ==
    LET s == [self EXCEPT !.accum = (self.accum + val) % 256]
    IN [self |-> s, ret |-> s.accum]

Check8Sum_init(self, val) ==
    LET s == [self EXCEPT !.accum = val] IN [self |-> s, ret |-> s.accum]

Check8Sum_add(self, val) ==
    LET s == [self EXCEPT !.accum = wrapping_add(self.accum, val)]
    IN [self |-> s, ret |-> s.accum]

\* ----------------------------------------------------------- Check8Xor

Check8Xor_new == [variant |-> "Xor", accum |-> 0, table |-> <<>>]

Check8Xor_get_accum(self) == self.accum

Check8Xor_init(self, val) ==
    LET s == [self EXCEPT !.accum = val] IN [self |-> s, ret |-> s.accum]

\* Variant: |= instead of ^=.
Check8Xor_add_or(self, val) ==
    LET s == [self EXCEPT
                  !.accum = self.accum + val - BitAnd(self.accum, val)]
    IN [self |-> s, ret |-> s.accum]

Check8Xor_add(self, val) ==
    LET s == [self EXCEPT !.accum = BitXor(self.accum, val)]
    IN [self |-> s, ret |-> s.accum]

\* The for loop of Check8Xor::calculate_from_byte_array.
RECURSIVE Check8Xor_loop(_, _)
Check8Xor_loop(self, array) ==
    IF array = <<>> THEN self
    ELSE Check8Xor_loop(Check8Xor_add(self, Head(array)).self, Tail(array))

Check8Xor_calculate_from_byte_array(self, array) ==
    LET s == Check8Xor_loop(self, array) IN [self |-> s, ret |-> s.accum]

\* Variant: one byte per char (c as u8) instead of the UTF-8 bytes.
Check8Xor_calculate_from_string_chars(self, string) ==
    Check8Xor_calculate_from_byte_array(
        self, [i \in 1 .. Len(string) |-> string[i] % 256])

Check8Xor_calculate_from_string(self, string) ==
    Check8Xor_calculate_from_byte_array(self, as_bytes(string))

\* -------------------------------------------------- trait Check8 (lib.rs)

\* self.add(..), self.init(..), self.get_accum() on an impl Check8.
add(self, val) ==
    CASE self.variant = "Sum" -> Check8Sum_add(self, val)
      [] self.variant = "Xor" -> Check8Xor_add(self, val)
      [] self.variant = "Crc" -> Check8Crc_add(self, val)

init(self, val) ==
    CASE self.variant = "Sum" -> Check8Sum_init(self, val)
      [] self.variant = "Xor" -> Check8Xor_init(self, val)
      [] self.variant = "Crc" -> Check8Crc_init(self, val)

get_accum(self) ==
    CASE self.variant = "Sum" -> Check8Sum_get_accum(self)
      [] self.variant = "Xor" -> Check8Xor_get_accum(self)
      [] self.variant = "Crc" -> Check8Crc_get_accum(self)

\* The for loop of the provided method Check8::calculate_from_byte_array.
RECURSIVE Check8_loop(_, _)
Check8_loop(self, array) ==
    IF array = <<>> THEN self
    ELSE Check8_loop(add(self, Head(array)).self, Tail(array))

\* Variant: the accumulator is cleared before the loop.
Check8_calculate_from_byte_array_reset(self, array) ==
    LET s == Check8_loop([self EXCEPT !.accum = 0], array)
    IN [self |-> s, ret |-> get_accum(s)]

Check8_calculate_from_byte_array(self, array) ==
    LET s == Check8_loop(self, array) IN [self |-> s, ret |-> get_accum(s)]

Check8_calculate_from_string(self, string) ==
    Check8_calculate_from_byte_array(self, as_bytes(string))

\* Check8Xor overrides the two provided methods; the others inherit them.
calculate_from_byte_array(self, array) ==
    IF self.variant = "Xor" THEN Check8Xor_calculate_from_byte_array(self, array)
    ELSE Check8_calculate_from_byte_array(self, array)

calculate_from_string(self, string) ==
    IF self.variant = "Xor" THEN Check8Xor_calculate_from_string(self, string)
    ELSE Check8_calculate_from_string(self, string)

\* ------------------------------------------------------------- the caller

Self == [variant |-> variant, accum |-> accum, table |-> table]

NoCall == [op |-> "none", arg |-> 0, pre |-> 0, ret |-> 0]

\* The instance right after new(): no method has been called on it yet.
Constructed(s, arg) ==
    /\ variant = s.variant
    /\ accum = s.accum
    /\ table = s.table
    /\ poly = IF s.variant = "Crc" THEN arg ELSE 0
    /\ call = [op |-> "new", arg |-> arg, pre |-> 0, ret |-> s.accum]

\* No call is in progress: the caller may make one.
Idle == call.op \in {"none", "new"}

\* A method that returned r = [self, ret]: the instance is r.self.
Returned(opname, arg, r) ==
    /\ accum' = r.self.accum
    /\ table' = r.self.table
    /\ variant' = r.self.variant
    /\ call' = [op |-> opname, arg |-> arg, pre |-> accum, ret |-> r.ret]
    /\ UNCHANGED poly

CallInit(val) == Returned("init", val, init(Self, val))

CallAdd(val) == Returned("add", val, add(Self, val))

CallGetAccum ==
    Returned("get_accum", 0, [self |-> Self, ret |-> get_accum(Self)])

CallCalculateFromByteArray(array) ==
    Returned("calculate_from_byte_array", array,
             calculate_from_byte_array(Self, array))

CallCalculateFromString(string) ==
    Returned("calculate_from_string", string,
             calculate_from_string(Self, string))

\* The caller takes the returned value; the instance is free for the next call.
Return ==
    /\ ~Idle
    /\ call' = NoCall
    /\ UNCHANGED <<variant, accum, table, poly>>

Init ==
    \/ \E initial \in Byte : Constructed(Check8Sum_new(initial), initial)
    \/ Constructed(Check8Xor_new, 0)
    \/ \E p \in Polys : Constructed(Check8Crc_new(p), p)

Next ==
    \/ Idle /\ \E val \in Byte : CallInit(val)
    \/ Idle /\ \E val \in Byte : CallAdd(val)
    \/ Idle /\ CallGetAccum
    \/ Idle /\ \E array \in Arrays : CallCalculateFromByteArray(array)
    \/ Idle /\ \E string \in Texts : CallCalculateFromString(string)
    \/ Return

Spec == Init /\ [][Next]_vars

\* Every polynomial, with init/add fed from SampleBytes.
InitCrc == \E p \in Byte : Constructed(Check8Crc_new(p), p)

NextCrc ==
    \/ Idle /\ \E val \in SampleBytes : CallInit(val)
    \/ Idle /\ \E val \in SampleBytes : CallAdd(val)
    \/ Return

SpecCrc == InitCrc /\ [][NextCrc]_vars

\* ------------------------------------------------------------ properties

\* The instance as it was, or would be, with accumulator a.
Obj(a) == [variant |-> variant, accum |-> a, table |-> table]

IsBulk == call.op \in {"calculate_from_byte_array", "calculate_from_string"}

\* The bytes the bulk call that has just returned was fed.
BulkBytes ==
    IF call.op = "calculate_from_string" THEN as_bytes(call.arg) ELSE call.arg

\* MSB-first division of one byte by the polynomial g, bit by bit.
RECURSIVE MsbFirstDivision(_, _, _)
MsbFirstDivision(crc, g, rounds) ==
    IF rounds = 0 THEN crc
    ELSE MsbFirstDivision(
             IF crc >= 128 THEN BitXor((crc * 2) % 256, g) ELSE (crc * 2) % 256,
             g, rounds - 1)

\* C1: on a Check8Crc built by new(poly), add(v) from accumulator a sets the
\* accumulator to, and returns, table[a XOR v], and that value is the result
\* of the 8-round bit-by-bit MSB-first division of a XOR v by poly; the table
\* new(poly) builds holds that division's result for every index.
C1_AddIsTableLookup ==
    /\ call.op = "new" =>
           \A x \in Byte : table[x] = MsbFirstDivision(x, poly, 8)
    /\ call.op = "add" =>
           LET x == BitXor(call.pre, call.arg)
           IN /\ accum = table[x]
              /\ call.ret = accum
              /\ accum = MsbFirstDivision(x, poly, 8)

C1_Witness ==
    /\ variant = "Crc" /\ poly = 7
    /\ call.op = "add" /\ call.pre = 255 /\ call.arg = 1
    /\ accum = table[254]

\* C2: calculate_from_byte_array does not reset the accumulator: for every
\* variant, starting accumulator and split of the bytes into A followed by B,
\* the call on A and then the call on B return the value, and leave the
\* accumulator, of the single call on the concatenation.
C2_BulkComposes ==
    call.op = "calculate_from_byte_array" =>
        \A k \in 0 .. Len(call.arg) :
            LET A == SubSeq(call.arg, 1, k)
                B == SubSeq(call.arg, k + 1, Len(call.arg))
                first == calculate_from_byte_array(Obj(call.pre), A)
                second == calculate_from_byte_array(first.self, B)
            IN /\ second.ret = call.ret
               /\ second.self.accum = accum

C2_Witness ==
    /\ call.op = "calculate_from_byte_array"
    /\ variant = "Crc"
    /\ call.pre = 72
    /\ call.arg = <<1, 2, 255>>
    /\ accum # 0

\* C3: golden values of the CRC engine with polynomial 0x07 and accumulator
\* 0: calculate_from_byte_array([1,2,3]) returns 72, and
\* calculate_from_string("123") returns 0xC0.
C3_GoldenValues ==
    (variant = "Crc" /\ poly = 7 /\ IsBulk /\ call.pre = 0) =>
        /\ (call.op = "calculate_from_byte_array" /\ call.arg = <<1, 2, 3>>)
               => call.ret = 72
        /\ (call.op = "calculate_from_string" /\ call.arg = <<49, 50, 51>>)
               => call.ret = 192

C3_Witness ==
    /\ variant = "Crc" /\ poly = 7
    /\ call.op = "calculate_from_string"
    /\ call.pre = 0
    /\ call.arg = <<49, 50, 51>>
    /\ accum = 192

RECURSIVE SumOf(_)
SumOf(bytes) == IF bytes = <<>> THEN 0 ELSE Head(bytes) + SumOf(Tail(bytes))

\* C4: Check8Sum.add wraps: from accumulator a, add(v) sets the accumulator
\* to (a + v) mod 256 and returns it (255 + 1 gives 0), and
\* calculate_from_byte_array from accumulator 0 returns the sum of the bytes
\* mod 256.
C4_SumWraps ==
    variant = "Sum" =>
        /\ call.op = "add" =>
               /\ accum = (call.pre + call.arg) % 256
               /\ call.ret = accum
               /\ (call.pre = 255 /\ call.arg = 1) => call.ret = 0
        /\ (call.op = "calculate_from_byte_array" /\ call.pre = 0) =>
               /\ call.ret = SumOf(call.arg) % 256
               /\ accum = call.ret

C4_Witness ==
    /\ variant = "Sum"
    /\ call.op = "add" /\ call.pre = 255 /\ call.arg = 1
    /\ accum = 0

\* C5: XOR self-inverse: on a Check8Xor, add(b) from accumulator 0 returns b,
\* and a second add(b) restores the accumulator the first one found (0 after
\* init(0); add(b); add(b)).
C5_XorSelfInverse ==
    (variant = "Xor" /\ call.op = "add") =>
        LET again == add(Self, call.arg)
        IN /\ again.ret = call.pre
           /\ again.self.accum = call.pre
           /\ call.pre = 0 => (call.ret = call.arg /\ again.ret = 0)

C5_Witness ==
    /\ variant = "Xor"
    /\ call.op = "add" /\ call.pre = 0 /\ call.arg = 165
    /\ accum = 165

\* add called once per byte, left to right.
RECURSIVE AddEach(_, _, _)
AddEach(self, bytes, i) ==
    IF i > Len(bytes) THEN self
    ELSE AddEach(add(self, bytes[i]).self, bytes, i + 1)

\* C6: for every variant, starting accumulator and byte sequence, the bulk
\* operation returns the value and leaves the state of add called once per
\* byte in order followed by get_accum(); Check8Xor's overriding methods do
\* the same, and calculate_from_string(text) is calculate_from_byte_array on
\* the bytes of text.
C6_BulkIsFoldOfAdd ==
    IsBulk =>
        LET s == AddEach(Obj(call.pre), BulkBytes, 1)
        IN /\ accum = s.accum
           /\ table = s.table
           /\ call.ret = get_accum(s)
           /\ call.op = "calculate_from_string" =>
                  LET r == calculate_from_byte_array(Obj(call.pre),
                                                     as_bytes(call.arg))
                  IN call.ret = r.ret /\ accum = r.self.accum

C6_Witness ==
    /\ variant = "Xor"
    /\ call.op = "calculate_from_string"
    /\ call.arg = <<49, 8364>>
    /\ call.pre = 255
    /\ accum # 255

\* C7: after construction get_accum() is the seed for Check8Sum::new(s), 0
\* for a new Check8Xor, and 0 for Check8Crc::new(poly) whatever poly is.
C7_InitialAccum ==
    call.op = "new" =>
        /\ call.ret = accum
        /\ get_accum(Self) = (IF variant = "Sum" THEN call.arg ELSE 0)

C7_Witness ==
    /\ call.op = "new" /\ variant = "Crc" /\ poly = 7 /\ accum = 0

\* C8: init(val) overwrites the accumulator whatever it was: it returns val
\* and get_accum() then returns val; get_accum() changes nothing.
C8_InitOverwrites ==
    /\ call.op = "init" =>
           call.ret = call.arg /\ accum = call.arg /\ get_accum(Self) = call.arg
    /\ call.op = "get_accum" =>
           accum = call.pre /\ call.ret = call.pre

C8_Witness ==
    /\ call.op = "init" /\ variant = "Crc"
    /\ call.pre = 7 /\ call.arg = 255 /\ accum = 255

\* The table each polynomial generates.
TableOf == [g \in Polys |-> generate_table(g)]

\* C9: the CRC lookup table is immutable after construction: in every state
\* reached by init, add, get_accum and the bulk operations its 256 entries are
\* the ones generated from poly, whatever the accumulator is.
C9_TableImmutable ==
    variant = "Crc" => (DOMAIN table = Byte /\ table = TableOf[poly])

C9_Witness ==
    /\ variant = "Crc" /\ poly = 7
    /\ call.op = "calculate_from_byte_array"
    /\ call.arg = <<255, 255, 255>>
    /\ accum # 0 /\ accum # call.pre

\* C10: table[0] is 0 for every polynomial; for every polynomial whose lowest
\* bit is 1 the table is a permutation of 0..255, so from one accumulator
\* add sends distinct bytes to distinct accumulators, and they stay distinct
\* under one more equal byte.
C10_OddPolyPermutation ==
    /\ table[0] = 0
    /\ (call.op = "new" /\ poly % 2 = 1) =>
           Cardinality({table[x] : x \in Byte}) = 256
    /\ (call.op = "add" /\ poly % 2 = 1) =>
           \A v \in SampleBytes \ {call.arg} :
               LET other == add(Obj(call.pre), v)
               IN /\ other.ret # call.ret
                  /\ \A w \in SampleBytes :
                         add(other.self, w).ret # add(Self, w).ret

C10_Witness ==
    /\ variant = "Crc" /\ poly = 49
    /\ call.op = "add" /\ call.pre = 128 /\ call.arg = 255
    /\ accum # 0

====
